---------------------------- MODULE Spec2Model ----------------------------
(***************************************************************************)
(* A model of scrape_malaysiakini.py: the section scraper                  *)
(* (scrape_malaysiakini), the summary writer (save_to_csv) and the driver  *)
(* (main), run one or more times against the same working directory.       *)
(*                                                                         *)
(* Strings are TLA+ strings; they are taken apart with SubSeq and Len and  *)
(* put together with \o, so str.lower, str.startswith, the `in' test,      *)
(* get_text(strip=True) and ', '.join are computed character by character. *)
(*                                                                         *)
(* The environment chooses what each request returns (a transport error,   *)
(* or a response with a status code), whether the page parses, and which   *)
(* anchors the page holds.  find_all's list is read once, front to back,   *)
(* so the model draws the next anchor when the loop reaches it.            *)
(*                                                                         *)
(* datetime.now() is modelled at the granularity of a run: `now' is the    *)
(* ordinal of the run, so records of different runs carry different        *)
(* date_scraped values.  Console output and the sleeps are not state.      *)
(***************************************************************************)
EXTENDS Integers, Sequences, FiniteSets, TLC

(***************************************************************************)
(* Bounds of the model.                                                    *)
(***************************************************************************)
\* anchors the three section pages of one run hold in total
MaxLinks == 2
\* runs of the script against the same directory
MaxRuns == 2

(***************************************************************************)
(* Program data.                                                           *)
(***************************************************************************)
keywords ==
    << "mental health", "mental", "mentally", "behavioural", "emotional",
       "psychiatry", "psychiatric", "psychiatrist", "psychology", "psychological",
       "psychologist", "counselling", "counseling", "counsellor", "counselor",
       "therapy", "therapist", "therapeutic", "psychotherapy", "psychotherapeutic",
       "psychotherapists", "depression", "depressed", "suicide", "suicidal",
       "anxiety", "anxious", "stress", "stressed", "trauma", "traumatised",
       "traumatized", "self-harm", "stigma", "resilience", "discriminate",
       "discrimination", "discriminated",
       "lgbt", "lgbtq", "lgbtqia", "lgbtq+", "lgbtqia+", "lesbian", "gay",
       "homosexual", "homosexuality", "bisexual", "bisexuality", "transgender",
       "transwoman", "transwomen", "transman", "transmen", "trans", "transsexual",
       "transvestite", "non-binary", "nonbinary", "queer", "intersex", "sogie",
       "sogiesc", "sex", "sexual", "sexuality", "gender", "masculine",
       "masculinity", "feminine", "femininity" >>

base_url == "https://www.malaysiakini.com"

sections == << "news", "columns", "letters" >>

link_prefix == "/news/"

MinTitleLen == 10

fieldnames == << "title", "url", "section", "matching_keywords", "date_scraped" >>

(***************************************************************************)
(* String primitives of Python, computed on characters.                    *)
(***************************************************************************)
CharAt(s, i) == SubSeq(s, i, i)

UpperCase == "ABCDEFGHIJKLMNOPQRSTUVWXYZ"
LowerCase == "abcdefghijklmnopqrstuvwxyz"

\* str.lower on one character
LowerChar(c) ==
    IF \E i \in 1..Len(UpperCase) : CharAt(UpperCase, i) = c
    THEN CharAt(LowerCase, CHOOSE i \in 1..Len(UpperCase) : CharAt(UpperCase, i) = c)
    ELSE c

\* str.lower
RECURSIVE lower(_)
lower(s) ==
    IF Len(s) = 0 THEN ""
    ELSE LowerChar(CharAt(s, 1)) \o lower(SubSeq(s, 2, Len(s)))

IsSpace(c) == c \in {" ", "\t", "\n", "\r"}

\* str.strip, as get_text(strip=True) applies it to the anchor's text node
RECURSIVE strip(_)
strip(s) ==
    IF Len(s) = 0 THEN ""
    ELSE IF IsSpace(CharAt(s, 1)) THEN strip(SubSeq(s, 2, Len(s)))
    ELSE IF IsSpace(CharAt(s, Len(s))) THEN strip(SubSeq(s, 1, Len(s) - 1))
    ELSE s

\* str.startswith
startswith(s, p) == Len(s) >= Len(p) /\ SubSeq(s, 1, Len(p)) = p

\* Python's `sub in s' on strings: sub occurs in s as a contiguous substring
in(sub, s) ==
    \E i \in 1..(Len(s) - Len(sub) + 1) : SubSeq(s, i, i + Len(sub) - 1) = sub

\* sep.join(list)
RECURSIVE join(_, _)
join(sep, list) ==
    IF list = << >> THEN ""
    ELSE IF Len(list) = 1 THEN list[1]
    ELSE list[1] \o sep \o join(sep, Tail(list))


(***************************************************************************)
(* The environment: what a request can return and what a page can hold.    *)
(***************************************************************************)
StatusCodes == {200, 404, 500}

Anchors ==
    { [href |-> "/news/101",     text |-> "this is sexist"],
      [href |-> "/news/archive", text |-> "Mental health issues"],
      [href |-> "/news/102",     text |-> "budget tabled today"],
      [href |-> "/columns/5",    text |-> "Mental health issues"],
      [href |-> "/news/103",     text |-> "  gay sex \n"],
      [href |-> "",              text |-> "this is sexist"] }

(***************************************************************************)
(* The body of the link loop, lines 58-86.                                 *)
(***************************************************************************)
\* line 60: `if not link or not link.startswith('/news/'): continue'
skip_link(link) == link = "" \/ ~startswith(link, link_prefix)

\* line 63
full_link(link) == IF startswith(link, "/") THEN base_url \o link ELSE link

\* mutant of skip_title: the minimum title length is not applied
skip_title_empty_only(title) == title = ""

\* line 66: `if not title or len(title) < 10: continue'
skip_title(title) == title = "" \/ Len(title) < MinTitleLen

\* lines 70-71: the keywords that occur in the lower-cased title, in the
\* order of the keywords list
matching_keywords(title) ==
    LET title_lower == lower(title)
    IN  SelectSeq(keywords, LAMBDA kw : in(lower(kw), title_lower))

\* lines 59-71 for one anchor: whether a `continue' skips it and, if not,
\* its title, absolute URL and matching keywords
scan(a) ==
    LET link  == a.href
        title == strip(a.text)
    IN  IF skip_link(link) \/ skip_title(title)
        THEN [skipped |-> TRUE, title |-> "", url |-> "", matching |-> << >>]
        ELSE [skipped |-> FALSE, title |-> title, url |-> full_link(link),
              matching |-> matching_keywords(title)]

\* scan, evaluated once per anchor of the environment
Scanned == [a \in Anchors |-> scan(a)]

\* mutant of loop_body: the record is appended without `if matching_keywords'
loop_body_unconditional(a, res, section, clock) ==
    LET s == Scanned[a]
    IN  IF s.skipped THEN res
        ELSE Append(res, [title             |-> s.title,
                          url               |-> s.url,
                          section           |-> section,
                          matching_keywords |-> join(", ", s.matching),
                          date_scraped      |-> clock])

\* lines 59-82: the results list after one iteration on anchor a
loop_body(a, res, section, clock) ==
    LET s == Scanned[a]
    IN  IF s.skipped THEN res
        ELSE IF s.matching # << >>
             THEN Append(res, [title             |-> s.title,
                               url               |-> s.url,
                               section           |-> section,
                               matching_keywords |-> join(", ", s.matching),
                               date_scraped      |-> clock])
             ELSE res

(***************************************************************************)
(* save_to_csv, lines 134-149: the file after the call.                    *)
(***************************************************************************)
NoFile == [exists |-> FALSE, header |-> << >>, rows |-> << >>]

\* mutant of save_to_csv: the file is opened with mode 'a'
save_to_csv_append(res, file) ==
    IF res = << >> THEN file
    ELSE [exists |-> TRUE, header |-> fieldnames, rows |-> file.rows \o res]

save_to_csv(res, file) ==
    IF res = << >> THEN file
    ELSE [exists |-> TRUE, header |-> fieldnames, rows |-> res]

(***************************************************************************)
(* State.                                                                  *)
(***************************************************************************)
VARIABLES
    pc,         \* where the script is: idle, get, raise_for_status, parse,
                \* loop, except, sleep, return
    now,        \* the clock, in runs: the ordinal of the current run
    results,    \* scrape_malaysiakini's results list
    sec,        \* index in sections of the section being scraped
    attempts,   \* requests.get calls made for the current section
    response,   \* status code of the response, 0 when there is none
    exc,        \* the exception being raised in the try block, or "none"
    article,    \* the loop variable: << >> when unbound, else <<anchor>>
    linksSeen,  \* anchors the pages of this run have held so far
    errorLog,   \* the sections whose "Error scraping" line this run printed
    csv         \* malaysiakini_articles.csv in the working directory

vars == << pc, now, results, sec, attempts, response, exc, article, linksSeen,
          errorLog, csv >>

Init ==
    /\ pc = "idle"
    /\ now = 0
    /\ results = << >>
    /\ sec = 0
    /\ attempts = 0
    /\ response = 0
    /\ exc = "none"
    /\ article = << >>
    /\ linksSeen = 0
    /\ errorLog = << >>
    /\ csv = NoFile

(***************************************************************************)
(* Actions.                                                                *)
(***************************************************************************)
\* main starts a run: lines 151-158 and 31-41
Main ==
    /\ pc = "idle"
    /\ now < MaxRuns
    /\ now' = now + 1
    /\ results' = << >>
    /\ sec' = 1
    /\ linksSeen' = 0
    /\ errorLog' = << >>
    /\ pc' = "get"
    /\ UNCHANGED << attempts, response, exc, article, csv >>

\* line 49: requests.get raises a transport error or returns a response
Get ==
    /\ pc = "get"
    /\ attempts' = attempts + 1
    /\ \/ /\ exc' = "RequestException"
          /\ pc' = "except"
          /\ UNCHANGED response
       \/ /\ \E status \in StatusCodes : response' = status
          /\ pc' = "raise_for_status"
          /\ UNCHANGED exc
    /\ UNCHANGED << now, results, sec, article, linksSeen, errorLog, csv >>

\* line 50: response.raise_for_status()
RaiseForStatus ==
    /\ pc = "raise_for_status"
    /\ IF 400 <= response /\ response < 600
       THEN exc' = "HTTPError" /\ pc' = "except"
       ELSE exc' = exc /\ pc' = "parse"
    /\ UNCHANGED << now, results, sec, attempts, response, article, linksSeen, errorLog, csv >>

\* lines 52-57: BeautifulSoup parses the page, or rejects the markup
Parse ==
    /\ pc = "parse"
    /\ \/ exc' = "ParserRejectedMarkup" /\ pc' = "except"
       \/ exc' = exc /\ pc' = "loop"
    /\ UNCHANGED << now, results, sec, attempts, response, article, linksSeen, errorLog, csv >>

\* lines 58-86: one iteration of `for article in articles'
ProcessLink ==
    /\ pc = "loop"
    /\ linksSeen < MaxLinks
    /\ \E a \in Anchors :
          /\ article' = << a >>
          /\ results' = loop_body(a, results, sections[sec], now)
    /\ linksSeen' = linksSeen + 1
    /\ UNCHANGED << pc, now, sec, attempts, response, exc, errorLog, csv >>

\* line 88: the list of anchors is exhausted
EndLoop ==
    /\ pc = "loop"
    /\ pc' = "sleep"
    /\ article' = << >>
    /\ UNCHANGED << now, results, sec, attempts, response, exc, linksSeen, errorLog, csv >>

\* mutant of Except: the handler prints the error and raises it again
Except_reraises ==
    /\ pc = "except"
    /\ errorLog' = Append(errorLog, sections[sec])
    /\ pc' = "aborted"
    /\ UNCHANGED << now, results, sec, attempts, response, exc, article, linksSeen, csv >>

\* lines 90-91: `except Exception as e' prints the error
Except ==
    /\ pc = "except"
    /\ errorLog' = Append(errorLog, sections[sec])
    /\ exc' = "none"
    /\ pc' = "sleep"
    /\ UNCHANGED << now, results, sec, attempts, response, article, linksSeen, csv >>

\* mutant of NextSection: `results = []' sits inside the section loop
NextSection_resets_results ==
    /\ pc = "sleep"
    /\ sec' = sec + 1
    /\ attempts' = 0
    /\ response' = 0
    /\ pc' = IF sec < Len(sections) THEN "get" ELSE "return"
    /\ results' = IF sec < Len(sections) THEN << >> ELSE results
    /\ UNCHANGED << now, exc, article, linksSeen, errorLog, csv >>

\* line 94 and the head of `for section in sections'; line 96 after the last
NextSection ==
    /\ pc = "sleep"
    /\ sec' = sec + 1
    /\ attempts' = 0
    /\ response' = 0
    /\ pc' = IF sec < Len(sections) THEN "get" ELSE "return"
    /\ UNCHANGED << now, results, exc, article, linksSeen, errorLog, csv >>

\* mutant of Summary: the file is opened for writing before results is tested
Summary_opens_first ==
    /\ pc = "return"
    /\ csv' = [exists |-> TRUE, header |-> fieldnames, rows |-> results]
    /\ pc' = "idle"
    /\ UNCHANGED << now, results, sec, attempts, response, exc, article, linksSeen, errorLog >>

\* main, lines 158-191: the summary, and the CSV when results is not empty
Summary ==
    /\ pc = "return"
    /\ csv' = IF results # << >> THEN save_to_csv(results, csv) ELSE csv
    /\ pc' = "idle"
    /\ UNCHANGED << now, results, sec, attempts, response, exc, article, linksSeen, errorLog >>

Next ==
    \/ Main
    \/ Get
    \/ RaiseForStatus
    \/ Parse
    \/ ProcessLink
    \/ EndLoop
    \/ Except
    \/ NextSection
    \/ Summary

Spec == Init /\ [][Next]_vars

(***************************************************************************)
(* Vocabulary of the properties.                                           *)
(***************************************************************************)
\* a run of main has completed
RunDone == pc = "idle" /\ now >= 1

Records == { results[i] : i \in DOMAIN results }

\* index of the first occurrence of sep in s, 0 when there is none
FirstAt(sep, s) ==
    IF in(sep, s)
    THEN CHOOSE i \in 1..(Len(s) - Len(sep) + 1) :
            /\ SubSeq(s, i, i + Len(sep) - 1) = sep
            /\ \A j \in 1..(i - 1) : SubSeq(s, j, j + Len(sep) - 1) # sep
    ELSE 0

\* s.split(sep): the inverse of join on terms that do not contain sep
RECURSIVE split(_, _)
split(s, sep) ==
    LET i == FirstAt(sep, s)
    IN  IF i = 0 THEN << s >>
        ELSE << SubSeq(s, 1, i - 1) >> \o split(SubSeq(s, i + Len(sep), Len(s)), sep)

\* the keyword list a record carries
Terms(r) == split(r.matching_keywords, ", ")

\* a word character of a regular expression: letter, digit or underscore
IsWordChar(c) == Len(c) = 1 /\ in(c, LowerCase \o UpperCase \o "0123456789_")

\* term occurs in text with no word character adjoining it on either side
WholeWordIn(term, text) ==
    \E i \in 1..(Len(text) - Len(term) + 1) :
        /\ SubSeq(text, i, i + Len(term) - 1) = term
        /\ i = 1 \/ ~IsWordChar(CharAt(text, i - 1))
        /\ i + Len(term) > Len(text) \/ ~IsWordChar(CharAt(text, i + Len(term)))

\* the characters of the vocabulary in code-point order
CodeOrder == " +-0123456789abcdefghijklmnopqrstuvwxyz"
Code(c) == CHOOSE i \in 1..Len(CodeOrder) : CharAt(CodeOrder, i) = c

\* a < b as Python compares strings
RECURSIVE StrLess(_, _)
StrLess(a, b) ==
    IF Len(b) = 0 THEN FALSE
    ELSE IF Len(a) = 0 THEN TRUE
    ELSE IF CharAt(a, 1) = CharAt(b, 1)
         THEN StrLess(SubSeq(a, 2, Len(a)), SubSeq(b, 2, Len(b)))
         ELSE Code(CharAt(a, 1)) < Code(CharAt(b, 1))

\* the path of a URL of the site
PathOf(url) == SubSeq(url, Len(base_url) + 1, Len(url))

\* path is /news/<numeric-id>
IsArticlePath(path) ==
    /\ startswith(path, link_prefix)
    /\ Len(path) > Len(link_prefix)
    /\ \A i \in (Len(link_prefix) + 1)..Len(path) : in(CharAt(path, i), "0123456789")

(***************************************************************************)
(* C1.  Keyword matching is whole-word: a term is reported for a title     *)
(* only if it occurs in the title with no word character adjoining it on   *)
(* either side ("this is sexist" must not report "sex").                   *)
(***************************************************************************)
C1_WholeWordMatching ==
    \A r \in Records : \A k \in DOMAIN Terms(r) :
        WholeWordIn(Terms(r)[k], lower(r.title))

(***************************************************************************)
(* C2.  Deduplication: no two records of the results have the same         *)
(* absolute URL.                                                           *)
(***************************************************************************)
C2_NoDuplicateUrls ==
    \A i, j \in DOMAIN results : i # j => results[i].url # results[j].url

(***************************************************************************)
(* C3.  Retry protocol: a fetch that fails with a transport error or a     *)
(* non-404 status is given up on only after 3 attempts in total.           *)
(***************************************************************************)
C3_GivenUpOnlyAfterThreeAttempts ==
    (/\ pc = "except"
     /\ \/ exc = "RequestException"
        \/ exc = "HTTPError" /\ response # 404)
    => attempts = 3

(***************************************************************************)
(* C4.  A run that ends with no record does not create or write the        *)
(* summary file; the file is written only by the summary step of a run     *)
(* that has at least one record.                                           *)
(***************************************************************************)
C4_NoSummaryOnEmptyRun ==
    [][ csv' # csv => (pc = "return" /\ results # << >> /\ csv'.exists) ]_vars

C4_Witness == RunDone /\ results = << >> /\ ~csv.exists

(***************************************************************************)
(* C5.  As claimed: after any sequence of complete runs the summary file   *)
(* on disk holds exactly the records of the most recent run.               *)
(***************************************************************************)
C5_SummaryIsLatestRun ==
    (RunDone /\ csv.exists) => csv.rows = results

(***************************************************************************)
(* C5, amended.  After any sequence of complete runs, if the most recent   *)
(* run matched at least one record the summary file holds the header and   *)
(* exactly that run's records, overwritten wholesale and never appended    *)
(* to; a run that matched nothing leaves the file as the earlier runs left  *)
(* it.                                                                     *)
(***************************************************************************)
C5_SummaryIsLatestNonEmptyRun ==
    /\ []((RunDone /\ results # << >>) =>
            csv = [exists |-> TRUE, header |-> fieldnames, rows |-> results])
    /\ [][ (pc = "return" /\ results = << >>) => csv' = csv ]_vars

C5_Witness ==
    /\ RunDone
    /\ now >= 2
    /\ results # << >>
    /\ csv.rows = results

(***************************************************************************)
(* C6.  A failure while scraping a section never aborts the run: the       *)
(* exception is caught and logged, no record and no file is touched, the   *)
(* loop goes on to the next section, and the run is never stuck short of   *)
(* its normal end.                                                         *)
(***************************************************************************)
C6_FailuresNeverAbort ==
    /\ [](pc # "idle" => ENABLED Next)
    /\ [][ pc = "except" =>
             /\ pc' = "sleep"
             /\ errorLog' = Append(errorLog, sections[sec])
             /\ UNCHANGED << results, sec, csv >> ]_vars

C6_Witness ==
    /\ RunDone
    /\ errorLog = sections
    /\ results = << >>

(***************************************************************************)
(* C7.  As claimed: every record comes from an anchor whose href is        *)
(* /news/<numeric-id> and whose text has at least 10 characters.           *)
(***************************************************************************)
C7_RecordsFromArticlePaths ==
    \A r \in Records :
        /\ IsArticlePath(PathOf(r.url))
        /\ Len(r.title) >= 10

(***************************************************************************)
(* C7, amended.  Every record comes from an anchor whose href starts with  *)
(* /news/ and whose stripped text has at least 10 characters; its url is   *)
(* the site's origin followed by that href and its title that text.        *)
(***************************************************************************)
C7_RecordsFromNewsPrefix ==
    \A r \in Records :
        /\ startswith(r.url, base_url \o "/news/")
        /\ Len(r.title) >= 10
        /\ \E a \in Anchors :
              /\ startswith(a.href, "/news/")
              /\ Len(strip(a.text)) >= 10
              /\ r.url = base_url \o a.href
              /\ r.title = strip(a.text)

C7_Witness ==
    \E r \in Records : r.url = base_url \o "/news/101" /\ r.title = "this is sexist"

(***************************************************************************)
(* C8.  The keyword list of a record is sorted alphabetically and holds    *)
(* each term once.                                                         *)
(***************************************************************************)
C8_KeywordsSortedUnique ==
    \A r \in Records : \A k \in 1..(Len(Terms(r)) - 1) :
        StrLess(Terms(r)[k], Terms(r)[k + 1])

(***************************************************************************)
(* C9.  A candidate that passed the link filters is appended to the        *)
(* results if and only if its keyword list is not empty; every record has  *)
(* a non-empty matching_keywords field.                                    *)
(***************************************************************************)
C9_MatchedIffRecorded ==
    /\ [](\A r \in Records : r.matching_keywords # "")
    /\ [][ (linksSeen' = linksSeen + 1 /\ ~Scanned[article'[1]].skipped) =>
             ((results' # results) <=> (Scanned[article'[1]].matching # << >>)) ]_vars

C9_Witness ==
    /\ article # << >>
    /\ ~Scanned[article[1]].skipped
    /\ Scanned[article[1]].matching = << >>
    /\ Len(results) = 1

(***************************************************************************)
(* C10.  The results list is append-only and in ingestion order: within a  *)
(* run a step leaves it alone or appends one record of the section being   *)
(* scraped; the sections are taken one after the other in the order news,  *)
(* columns, letters, each fetched once; a section that fails has no record *)
(* and leaves the records of earlier sections as they were.                *)
(***************************************************************************)
C10_AppendOnlyInOrder ==
    /\ [][ \/ results' = results
           \/ /\ pc = "loop"
              /\ Len(results') = Len(results) + 1
              /\ SubSeq(results', 1, Len(results)) = results
              /\ results'[Len(results')].section = sections[sec]
           \/ pc = "idle" /\ results' = << >> ]_vars
    /\ [][ sec' # sec => \/ pc = "idle" /\ sec' = 1
                         \/ pc = "sleep" /\ sec' = sec + 1 ]_vars
    /\ [][ pc = "except" => results' = results ]_vars
    /\ [](pc = "return" => sec = Len(sections) + 1)
    /\ [](attempts <= 1)
    /\ [](\A r \in Records : \A k \in DOMAIN errorLog : r.section # errorLog[k])

C10_Witness ==
    /\ RunDone
    /\ errorLog = << "columns" >>
    /\ Len(results) = 2
    /\ results[1].section = "news"
    /\ results[2].section = "letters"

=============================================================================
